---- MODULE Spec2Model ----
(***************************************************************************)
(* Dictation HUD: the session orchestrator of src/src/windows/Hud.tsx      *)
(* (begin, stop and the provider callbacks), the two streaming adapters    *)
(* (Deepgram: src/unnamed/part_005, ElevenLabs: src/unnamed/part_004) and  *)
(* the transcript assembly done in stop().                                 *)
(*                                                                         *)
(* Everything runs on one JavaScript event loop: an action is one task of  *)
(* that loop, i.e. a handler from its start to its next real suspension    *)
(* (an IPC round trip, a timer, a socket event), together with the         *)
(* promise continuations that run in the same task.                        *)
(***************************************************************************)
EXTENDS Integers, Sequences, FiniteSets, TLC

\* ------------------------------------------------------------------ bounds

\* start requests (begin() invocations) in one run; each creates at most one
\* adapter closure (connection)
MaxBegins == 2
\* stop() invocations under way at the same time
MaxStops == 2
\* finalized segments kept in partialRef: in the session specifications, and
\* in the assembler specification
MaxFinals == 1
AsmMaxFinals == 2
\* calls of an adapter's stop() that are counted as having sent their closing
\* messages
MaxSent == 2
\* the step of the hotkey's clock, in ms
TickMs == 50
\* update checks started, counting the one on mount
MaxChecks == 3

BeginIds == 1..MaxBegins
StopIds == 1..MaxStops
ConnIds == BeginIds
NoConn == 0

\* ------------------------------------------------------------- text domain

\* fragments a provider may emit in the session specification
SessionTexts == {"a", " "}
\* fragments of the assembler specification
AsmTexts == {"hello", "world", "world there", "testing one two", "or", " ", " a", "xa", "a "}
\* responses of the refinement collaborator
Responses == {"", "R"}

\* ----------------------------------------------------------- string helpers
\* JavaScript strings are TLA+ strings; Len, \o and SubSeq act on them.

RECURSIVE TrimStart(_)
TrimStart(s) ==
  IF Len(s) > 0 /\ SubSeq(s, 1, 1) = " " THEN TrimStart(SubSeq(s, 2, Len(s))) ELSE s

RECURSIVE TrimEnd(_)
TrimEnd(s) ==
  IF Len(s) > 0 /\ SubSeq(s, Len(s), Len(s)) = " "
  THEN TrimEnd(SubSeq(s, 1, Len(s) - 1)) ELSE s

\* String.prototype.trim
Trim(s) == TrimEnd(TrimStart(s))

\* String.prototype.includes
Includes(hay, needle) ==
  \E i \in 0..(Len(hay) - Len(needle)) : SubSeq(hay, i + 1, i + Len(needle)) = needle

\* Array.prototype.join(' ')
RECURSIVE JoinSpace(_)
JoinSpace(parts) ==
  IF Len(parts) = 0 THEN ""
  ELSE IF Len(parts) = 1 THEN parts[1]
  ELSE parts[1] \o " " \o JoinSpace(Tail(parts))

\* ------------------------------------------------------- hotkey constants

\* minimum time between accepted hotkey presses, and the delay after which the
\* handler's finally block releases the lock
HOTKEY_COOLDOWN_MS == 500
LockReleaseDelayMs == 300
\* releaseTimer when no timer is pending
NoTimer == -1

\* the update state the settings window is loaded with
NoUpdateState == [status |-> "idle", progress |-> 0, pendingUpdate |-> "none", error |-> "none"]

\* checks: calls of check() in flight; resets: 3 s timers pending; mount: the
\* 500 ms timer of the title bar is pending; download: a downloadAndInstall is
\* in flight; relaunch: the 1 s timer before relaunch() is pending; started
\* counts the checks started
NoUpdater ==
  [checks |-> 0, resets |-> 0, mount |-> TRUE, download |-> FALSE, relaunch |-> FALSE,
   started |-> 0]

\* ------------------------------------------------------------------- state

VARIABLES
  show,                 \* Hud: useState show (the pill and the Stop button are rendered)
  badge,                \* Hud: useState badge ("none" for null)
  isRecording,          \* Hud: useState isRecording
  isConnecting,         \* Hud: useState isConnecting
  timerRef,             \* Hud: timerRef.current holds an interval id
  recRef,               \* Hud: recRef.current, the connection whose handle it holds, or NoConn
  partialRef,           \* Hud: partialRef.current, the finalized segments
  latestTranscriptRef,  \* Hud: latestTranscriptRef.current
  isReadyRef,           \* Hud: isReadyRef.current
  backendState,         \* backend recording state set by set_recording_active
  conn,                 \* per start request: its adapter closure and WebSocket
  begin,                \* per start request: where its begin() invocation stands
  stop,                 \* per stop() invocation under way: where it stands, its locals
  fragSeen,             \* history: a fragment reached the Hud since the last begin() reset
  isProcessingHotkey,   \* hotkey: the processing lock
  timeSinceLastPress,   \* hotkey: Date.now() - lastHotkeyTime in ms, counted up to the cooldown
  hotkeyPc,             \* hotkey: where the handler of the accepted press stands
  releaseTimer,         \* hotkey: ms left of the 300 ms timer that releases the lock, or NoTimer
  invoked,              \* hotkey history: the commands the handler has invoked, in order
  globalUpdateState,    \* updater: status, progress, pendingUpdate (with newVersion), error
  updater               \* updater: the calls in flight and the timers pending

hudVars == <<show, badge, isRecording, isConnecting, timerRef, recRef, partialRef,
             latestTranscriptRef, isReadyRef>>
hotkeyVars == <<isProcessingHotkey, timeSinceLastPress, hotkeyPc, releaseTimer, invoked>>
updateVars == <<globalUpdateState, updater>>
\* what the Hud window does not touch
settingsVars == <<hotkeyVars, updateVars>>
vars == <<show, badge, isRecording, isConnecting, timerRef, recRef, partialRef,
          latestTranscriptRef, isReadyRef, backendState, conn, begin, stop, fragSeen,
          isProcessingHotkey, timeSinceLastPress, hotkeyPc, releaseTimer, invoked,
          globalUpdateState, updater>>

Providers == {"dg", "el", "other"}

NoConnection ==
  [prov |-> "none", ws |-> "none", stopped |-> FALSE, keepAlive |-> FALSE,
   closeTimer |-> FALSE, commitResolved |-> FALSE, commitWait |-> FALSE,
   stopReq |-> FALSE, timedOut |-> FALSE, finalOnly |-> FALSE, kaSent |-> "none",
   errored |-> FALSE, sent |-> 0, out |-> <<>>]

\* startDeepgramStream / startElevenLabsStream: new WebSocket(...); stopReq is
\* history: a stop was requested while this session was CONNECTING; timedOut is
\* history: the 5 s timer ended the commit race; finalOnly is history: a Results
\* message with is_final and without speech_final was received; kaSent is
\* history: the state of the socket a KeepAlive message was sent on; errored is
\* history: the adapter passed an error message of the provider to onError; sent
\* is history: how many calls of stop() sent their closing messages (CloseStream,
\* or the commit and the commit chunk), counted up to MaxSent; out is history: the
\* messages the adapter sent on the socket in the latest step in which it sent any
NewConnection(prov, stopReq) ==
  [NoConnection EXCEPT !.prov = prov, !.ws = "connecting", !.stopReq = stopReq]

\* an adapter closure nothing refers to any more: its socket is closed, none of
\* its timers is pending and recRef does not hold its handle
Collectable(cr, c, rec) ==
  cr.ws = "closed" /\ ~cr.closeTimer /\ ~cr.commitWait /\ rec # c

\* what is left of a collected adapter closure
Gone == [NoConnection EXCEPT !.ws = "closed"]

\* the adapter closures left after garbage collection
Collect(cn, rec) ==
  [c \in ConnIds |-> IF Collectable(cn[c], c, rec) THEN Gone ELSE cn[c]]

\* mic is the MediaStream of getUserMedia held by the invocation: "none", "live",
\* or "stopped" once its tracks were stopped
NoBegin == [pc |-> "idle", prov |-> "none", stopReq |-> FALSE, mic |-> "none"]

NoStop ==
  [pc |-> "idle", rec |-> NoConn, outcome |-> "none",
   raw |-> "", refined |-> "", refineRes |-> "none", response |-> "",
   overlap |-> FALSE]

Init ==
  /\ show = FALSE
  /\ badge = "none"
  /\ isRecording = FALSE
  /\ isConnecting = FALSE
  /\ timerRef = FALSE
  /\ recRef = NoConn
  /\ partialRef = <<>>
  /\ latestTranscriptRef = ""
  /\ isReadyRef = FALSE
  /\ backendState = "inactive"
  /\ conn = [c \in ConnIds |-> NoConnection]
  /\ begin = [b \in BeginIds |-> NoBegin]
  /\ stop = [p \in StopIds |-> NoStop]
  /\ fragSeen = FALSE
  /\ isProcessingHotkey = FALSE
  /\ timeSinceLastPress = HOTKEY_COOLDOWN_MS
  /\ hotkeyPc = "idle"
  /\ releaseTimer = NoTimer
  /\ invoked = <<>>
  /\ globalUpdateState = NoUpdateState
  /\ updater = NoUpdater

\* ------------------------------------------------- transcript assembly (pure)

\* the onTranscript handler begin() installs: latest is overwritten by every
\* non-empty fragment, a non-empty final fragment is pushed
NewLatest(t, latest) == IF t # "" THEN t ELSE latest

\* a variant of the push below: a final fragment is put in front of the
\* finalized segments
NewPartialsPrepend(t, final, partials) ==
  IF t # "" /\ final THEN <<t>> \o partials ELSE partials

\* a variant of the push below: a final fragment replaces the finalized segments
NewPartialsReplace(t, final, partials) ==
  IF t # "" /\ final THEN <<t>> ELSE partials

NewPartials(t, final, partials) ==
  IF t # "" /\ final THEN Append(partials, t) ELSE partials

\* variants of the transcript check and of the assembly: the check on the
\* finalized segments alone; the interim fragment appended without the substring
\* test; the interim fragment used only when there is no finalized segment
HasAnyTranscriptFinalsOnly(partials, latest) == Len(partials) > 0

AssembleRawNoDedup(partials, latest) ==
  LET raw0 == Trim(JoinSpace(partials))
      lt == Trim(latest)
      raw1 == IF raw0 # "" /\ lt # "" THEN Trim(raw0 \o " " \o lt) ELSE raw0
  IN IF raw1 = "" /\ lt # "" THEN lt ELSE raw1

AssembleRawFinalsFirst(partials, latest) ==
  LET raw0 == Trim(JoinSpace(partials))
      lt == Trim(latest)
  IN IF raw0 = "" /\ lt # "" THEN lt ELSE raw0

\* stop(): hasAnyTranscript
HasAnyTranscript(partials, latest) ==
  Len(partials) > 0 \/ (latest # "" /\ Len(Trim(latest)) > 0)

\* stop(): the raw transcript collected from the finals and the latest fragment
AssembleRaw(partials, latest) ==
  LET raw0 == Trim(JoinSpace(partials))
      lt == Trim(latest)
      raw1 == IF raw0 # "" /\ lt # "" /\ ~Includes(raw0, lt)
              THEN Trim(raw0 \o " " \o lt)
              ELSE raw0
  IN IF raw1 = "" /\ lt # "" THEN lt ELSE raw1

\* a variant of the refinement fallback: no default to the raw transcript
RefinedTextNoDefault(raw, res, response) == IF res = "ok" THEN response ELSE ""

\* stop(): refined defaults to raw and is overwritten by a successful refine_text
RefinedText(raw, res, response) == IF res = "ok" THEN response ELSE raw

\* ------------------------------------------------- adapters: outbound messages

\* the ElevenLabs messages: an audio chunk of the stream, and what stop() sends
ElAudioChunk ==
  [message_type |-> "input_audio_chunk", audio_base_64 |-> "pcm", commit |-> FALSE]
ElCommitMessages ==
  <<[message_type |-> "commit"],
    [message_type |-> "input_audio_chunk", audio_base_64 |-> "", commit |-> TRUE]>>

\* the Deepgram messages: a binary audio frame and the two control frames
DgAudioFrame == [binary |-> "pcm"]
DgKeepAliveFrame == [type |-> "KeepAlive"]
DgCloseStreamFrame == [type |-> "CloseStream"]

\* a variant of the callback below: the chunk is sent whatever the adapter's state
ElOnAudioUnguarded(cr) == [cr EXCEPT !.out = <<ElAudioChunk>>]

\* processor.onaudioprocess of the ElevenLabs adapter
ElOnAudio(cr) ==
  IF cr.stopped \/ cr.ws # "open" THEN cr
  ELSE [cr EXCEPT !.out = <<ElAudioChunk>>]

\* a variant of the callback below: the frame is sent whatever the adapter's state
DgOnAudioUnguarded(cr) == [cr EXCEPT !.out = <<DgAudioFrame>>]

\* processor.onaudioprocess of the Deepgram adapter
DgOnAudio(cr) ==
  IF cr.stopped \/ cr.ws # "open" THEN cr
  ELSE [cr EXCEPT !.out = <<DgAudioFrame>>]

\* ------------------------------------------------- adapters: stop() (sync part)

\* a variant of the stop() below: the keepalive interval is not cleared
DgStopKeepsAlive(cr) ==
  [cr EXCEPT !.stopped = TRUE,
             !.closeTimer = IF cr.ws = "open" THEN TRUE ELSE cr.closeTimer,
             !.sent = IF cr.ws = "open" /\ @ < MaxSent THEN @ + 1 ELSE @,
             !.out = IF cr.ws = "open" THEN <<DgCloseStreamFrame>> ELSE @,
             !.ws = IF cr.ws = "connecting" THEN "aborting" ELSE cr.ws]

\* startDeepgramStream(...).stop
DgStop(cr) ==
  [cr EXCEPT !.stopped = TRUE,
             !.keepAlive = FALSE,
             !.closeTimer = IF cr.ws = "open" THEN TRUE ELSE cr.closeTimer,
             !.sent = IF cr.ws = "open" /\ @ < MaxSent THEN @ + 1 ELSE @,
             !.out = IF cr.ws = "open" THEN <<DgCloseStreamFrame>> ELSE @,
             !.ws = IF cr.ws = "connecting" THEN "aborting" ELSE cr.ws]

\* startElevenLabsStream(...).stop, up to its await of the commit race; when the
\* commit promise is already resolved the race is over in the same task and the
\* socket is closed at once
ElStop(cr) ==
  [cr EXCEPT !.stopped = TRUE,
             !.commitWait = (cr.ws = "open" /\ ~cr.commitResolved),
             !.sent = IF cr.ws = "open" /\ @ < MaxSent THEN @ + 1 ELSE @,
             !.out = IF cr.ws = "open" THEN ElCommitMessages ELSE @,
             !.ws = IF cr.ws = "connecting" THEN "aborting"
                    ELSE IF cr.ws = "open" /\ cr.commitResolved THEN "closing"
                    ELSE cr.ws]

RecorderStop(cr) == IF cr.prov = "dg" THEN DgStop(cr) ELSE ElStop(cr)

\* a client calls the stop() of adapter c
AdapterStop(c) ==
  /\ conn[c].prov \in {"dg", "el"}
  /\ conn' = [conn EXCEPT ![c] = RecorderStop(conn[c])]
  /\ UNCHANGED <<hudVars, backendState, begin, stop, fragSeen>>
  /\ UNCHANGED settingsVars

\* ---------------------------------------------------------------- begin()

\* the slot the next start request, the next stop() invocation takes
FreeBegin == {b \in BeginIds : begin[b].pc = "idle"}
FreeStop == {p \in StopIds : stop[p].pc = "idle"}
Lowest(S) == CHOOSE x \in S : \A y \in S : x <= y

\* a begin() invocation that returned, leaving its MediaStream as mic says
BeginReturned(mic) == [pc |-> "done", prov |-> "none", stopReq |-> FALSE, mic |-> mic]

\* a variant of begin(): the assembler is left as the last session left it
BeginResetKeepsTranscript(b, prov) ==
  /\ conn' = Collect(IF recRef # NoConn
                     THEN [conn EXCEPT ![recRef] = RecorderStop(conn[recRef])]
                     ELSE conn, NoConn)
  /\ recRef' = NoConn
  /\ timerRef' = FALSE
  /\ fragSeen' = FALSE
  /\ isRecording' = FALSE
  /\ isConnecting' = TRUE
  /\ isReadyRef' = FALSE
  /\ badge' = "Initializing microphone..."
  /\ show' = TRUE
  /\ begin' = [begin EXCEPT ![b] = [pc |-> "mic", prov |-> prov, stopReq |-> FALSE,
                                    mic |-> "none"]]
  /\ UNCHANGED <<backendState, stop, partialRef, latestTranscriptRef>>
  /\ UNCHANGED settingsVars

\* begin() up to its first await: the stale handle is stopped (not awaited), the
\* timer cleared, the assembler and the flags reset, the HUD shown
BeginReset(b, prov) ==
  /\ conn' = Collect(IF recRef # NoConn
                     THEN [conn EXCEPT ![recRef] = RecorderStop(conn[recRef])]
                     ELSE conn, NoConn)
  /\ recRef' = NoConn
  /\ timerRef' = FALSE
  /\ partialRef' = <<>>
  /\ latestTranscriptRef' = ""
  /\ fragSeen' = FALSE
  /\ isRecording' = FALSE
  /\ isConnecting' = TRUE
  /\ isReadyRef' = FALSE
  /\ badge' = "Initializing microphone..."
  /\ show' = TRUE
  /\ begin' = [begin EXCEPT ![b] = [pc |-> "mic", prov |-> prov, stopReq |-> FALSE,
                                    mic |-> "none"]]
  /\ UNCHANGED <<backendState, stop>>
  /\ UNCHANGED settingsVars

\* a dictation-start event: begin() is called
BeginStart(b, prov) ==
  /\ FreeBegin # {}
  /\ b = Lowest(FreeBegin)
  /\ BeginReset(b, prov)

\* begin() after get_behavior and getUserMedia: out in
\* {"ok", "denied", "failed"}; an unsupported provider returns before the microphone
BeginMic(b, out) ==
  /\ begin[b].pc = "mic"
  /\ IF begin[b].prov = "other"
     THEN /\ badge' = "Selected STT provider not supported yet"
          /\ isConnecting' = FALSE
          /\ backendState' = "inactive"
          /\ begin' = [begin EXCEPT ![b] = BeginReturned("none")]
          /\ UNCHANGED <<isRecording, isReadyRef>>
     ELSE IF out = "ok"
     THEN /\ begin' = [begin EXCEPT ![b] = [@ EXCEPT !.pc = "keys", !.mic = "live"]]
          /\ UNCHANGED <<badge, isConnecting, isRecording, isReadyRef, backendState>>
     ELSE /\ isRecording' = FALSE
          /\ isConnecting' = FALSE
          /\ isReadyRef' = FALSE
          /\ backendState' = "inactive"
          /\ badge' = IF out = "denied" THEN "Microphone permission required"
                      ELSE "Failed to start dictation"
          /\ begin' = [begin EXCEPT ![b] = BeginReturned("none")]
  /\ UNCHANGED <<show, timerRef, recRef, partialRef, latestTranscriptRef, conn, stop,
                 fragSeen>>
  /\ UNCHANGED settingsVars

\* a variant of the step below: the backend is told 'recording' before the
\* credentials are read, and the catch block does not take it back
BeginKeysAnnouncesFirst(b, out) ==
  /\ begin[b].pc = "keys"
  /\ begin' = [begin EXCEPT ![b] = BeginReturned(IF out = "nokey" THEN "stopped" ELSE "live")]
  /\ IF out = "ok"
     THEN /\ conn' = Collect([conn EXCEPT
                                ![b] = NewConnection(begin[b].prov, begin[b].stopReq)], b)
          /\ recRef' = b
          /\ UNCHANGED <<badge, isConnecting, isRecording, isReadyRef, backendState>>
     ELSE IF out = "nokey"
     THEN /\ badge' = IF begin[b].prov = "el" THEN "ElevenLabs key not configured"
                      ELSE "Deepgram key not configured"
          /\ isRecording' = FALSE
          /\ isConnecting' = FALSE
          /\ backendState' = "inactive"
          /\ UNCHANGED <<conn, recRef, isReadyRef>>
     ELSE /\ isRecording' = FALSE
          /\ isConnecting' = FALSE
          /\ isReadyRef' = FALSE
          /\ backendState' = "recording"
          /\ badge' = "Failed to start dictation"
          /\ UNCHANGED <<conn, recRef>>
  /\ UNCHANGED <<show, timerRef, partialRef, latestTranscriptRef, stop, fragSeen>>
  /\ UNCHANGED settingsVars

\* begin() after runtime_keys (and the ElevenLabs token): out in
\* {"ok", "nokey", "failed"}; on "ok" the adapter is started (its socket is
\* CONNECTING) and its handle stored in recRef; only the missing-key branch
\* stops the tracks of the MediaStream
BeginKeys(b, out) ==
  /\ begin[b].pc = "keys"
  /\ begin' = [begin EXCEPT ![b] = BeginReturned(IF out = "nokey" THEN "stopped" ELSE "live")]
  /\ IF out = "ok"
     THEN /\ conn' = Collect([conn EXCEPT
                                ![b] = NewConnection(begin[b].prov, begin[b].stopReq)], b)
          /\ recRef' = b
          /\ UNCHANGED <<badge, isConnecting, isRecording, isReadyRef, backendState>>
     ELSE IF out = "nokey"
     THEN /\ badge' = IF begin[b].prov = "el" THEN "ElevenLabs key not configured"
                      ELSE "Deepgram key not configured"
          /\ isRecording' = FALSE
          /\ isConnecting' = FALSE
          /\ backendState' = "inactive"
          /\ UNCHANGED <<conn, recRef, isReadyRef>>
     ELSE /\ isRecording' = FALSE
          /\ isConnecting' = FALSE
          /\ isReadyRef' = FALSE
          /\ backendState' = "inactive"
          /\ badge' = "Failed to start dictation"
          /\ UNCHANGED <<conn, recRef>>
  /\ UNCHANGED <<show, timerRef, partialRef, latestTranscriptRef, stop, fragSeen>>
  /\ UNCHANGED settingsVars

\* --------------------------------------------------- stop(): after the recorder

\* stop() from the return of `await recorder.stop()` to its next await: the flags
\* are cleared and hasAnyTranscript, evaluated on the assembler as it is then
\* (partials, latest), decides between the silent cancel (set_recording_active
\* 'inactive') and the delivery path (set_recording_active 'stopping')
PostRecorder(p, rec0, partials, latest) ==
  /\ isRecording' = FALSE
  /\ isConnecting' = FALSE
  /\ isReadyRef' = FALSE
  /\ IF HasAnyTranscript(partials, latest)
     THEN /\ partialRef' = partials
          /\ latestTranscriptRef' = latest
          /\ backendState' = "stopping"
          /\ stop' = [stop EXCEPT ![p] = [rec0 EXCEPT !.pc = "assemble", !.rec = NoConn]]
     ELSE /\ partialRef' = <<>>
          /\ latestTranscriptRef' = ""
          /\ backendState' = "inactive"
          /\ stop' = [stop EXCEPT ![p] = [rec0 EXCEPT !.pc = "hide", !.rec = NoConn,
                                                     !.outcome = "cancelled"]]

\* the stop() invocations awaiting the stop() of connection c's adapter
WaiterOf(c) == {p \in StopIds : stop[p].pc = "rec" /\ stop[p].rec = c}

\* the end of the ElevenLabs commit race of connection c: the adapter's stop()
\* closes the socket and resolves, and the stop() awaiting it goes on in the
\* same task
CommitRaceOver(c, partials, latest, timer) ==
  /\ conn' = Collect([conn EXCEPT ![c] = [@ EXCEPT !.commitResolved = TRUE,
                                                  !.commitWait = FALSE,
                                                  !.timedOut = timer,
                                                  !.ws = IF @ = "open" THEN "closing" ELSE @]],
                     recRef)
  /\ IF WaiterOf(c) = {}
     THEN /\ partialRef' = partials
          /\ latestTranscriptRef' = latest
          /\ UNCHANGED <<isRecording, isConnecting, isReadyRef, backendState, stop>>
     ELSE LET p == CHOOSE q \in WaiterOf(c) : TRUE
          IN PostRecorder(p, stop[p], partials, latest)

\* ------------------------------------------------------------ socket events

\* the socket of connection c opens: the adapter's onopen and the Hud's onOpen
WsOpen(c) ==
  /\ conn[c].ws = "connecting"
  /\ IF conn[c].prov = "dg" /\ conn[c].stopped
     THEN /\ conn' = [conn EXCEPT ![c].ws = "closing"]
          /\ UNCHANGED <<isReadyRef, isConnecting, isRecording, backendState, badge, timerRef>>
     ELSE /\ conn' = [conn EXCEPT ![c] = [@ EXCEPT !.ws = "open",
                                                  !.keepAlive = (conn[c].prov = "dg")]]
          /\ isReadyRef' = TRUE
          /\ isConnecting' = FALSE
          /\ isRecording' = TRUE
          /\ backendState' = "recording"
          /\ badge' = "none"
          /\ timerRef' = TRUE
  /\ UNCHANGED <<show, recRef, partialRef, latestTranscriptRef, begin, stop, fragSeen>>
  /\ UNCHANGED settingsVars

\* the Results messages of Deepgram, by the two flags the adapter may look at
DgMessages == [is_final : BOOLEAN, speech_final : BOOLEAN]

\* the Results messages the concurrent-session specification draws: interim
\* and speech-final ones (a message with is_final alone acts on the program as
\* an interim one does)
SessionMessages == {msg \in DgMessages : msg.is_final = msg.speech_final}

\* a variant of the flag below: a fragment is final when either flag is set
DgIsFinalEither(msg) == msg.is_final \/ msg.speech_final

\* the isFinal the Deepgram adapter hands to onTranscript
DgIsFinal(msg) == msg.speech_final

\* onTranscript(t, final) of the Hud, called by the adapter of the open socket
\* c; cap bounds the finals kept
WsTranscript(c, t, final, cap) ==
  /\ conn[c].ws = "open"
  /\ Len(NewPartials(t, final, partialRef)) <= cap
  /\ latestTranscriptRef' = NewLatest(t, latestTranscriptRef)
  /\ partialRef' = NewPartials(t, final, partialRef)
  /\ fragSeen' = TRUE
  /\ UNCHANGED <<show, badge, isRecording, isConnecting, timerRef, recRef, isReadyRef,
                 backendState, begin, stop>>
  /\ UNCHANGED settingsVars

\* a variant of the handler below: Results are passed on after stop() too
DgResultsAfterStop(c, t, msg, cap) ==
  /\ conn[c].prov = "dg"
  /\ Len(Trim(t)) > 0
  /\ WsTranscript(c, t, DgIsFinal(msg), cap)
  /\ conn' = [conn EXCEPT ![c].finalOnly = @ \/ (msg.is_final /\ ~msg.speech_final)]

\* a Deepgram Results message msg with transcript t: dropped once the adapter
\* is stopped and when the transcript is blank; finalOnly is history
DgResults(c, t, msg, cap) ==
  /\ conn[c].prov = "dg"
  /\ ~conn[c].stopped
  /\ Len(Trim(t)) > 0
  /\ WsTranscript(c, t, DgIsFinal(msg), cap)
  /\ conn' = [conn EXCEPT ![c].finalOnly = @ \/ (msg.is_final /\ ~msg.speech_final)]

\* an ElevenLabs partial_transcript with text t
ElPartial(c, t, cap) ==
  /\ conn[c].prov = "el"
  /\ t # ""
  /\ WsTranscript(c, t, FALSE, cap)
  /\ UNCHANGED conn

\* an ElevenLabs committed_transcript with text t (possibly empty): a final
\* fragment, and the commit promise is resolved; cap bounds the finals kept
ElCommitted(c, t, cap) ==
  /\ conn[c].ws = "open"
  /\ conn[c].prov = "el"
  /\ Len(NewPartials(t, TRUE, partialRef)) <= cap
  /\ fragSeen' = (fragSeen \/ t # "")
  /\ IF conn[c].commitWait
     THEN CommitRaceOver(c, NewPartials(t, TRUE, partialRef),
                         NewLatest(t, latestTranscriptRef), FALSE)
     ELSE /\ conn' = [conn EXCEPT ![c].commitResolved = TRUE]
          /\ partialRef' = NewPartials(t, TRUE, partialRef)
          /\ latestTranscriptRef' = NewLatest(t, latestTranscriptRef)
          /\ UNCHANGED <<isRecording, isConnecting, isReadyRef, backendState, stop>>
  /\ UNCHANGED <<show, badge, timerRef, recRef, begin>>
  /\ UNCHANGED settingsVars

\* a variant of the timer below: the race has no timer, only a
\* committed_transcript ends it
ElCommitNoTimeout(c) ==
  /\ conn[c].commitWait
  /\ UNCHANGED vars

\* the 5 s timer of the ElevenLabs commit race fires
ElCommitTimeout(c) ==
  /\ conn[c].commitWait
  /\ CommitRaceOver(c, partialRef, latestTranscriptRef, TRUE)
  /\ UNCHANGED <<show, badge, timerRef, recRef, begin, fragSeen>>
  /\ UNCHANGED settingsVars

\* the 50 ms timer of the Deepgram stop() fires: ws.close()
DgCloseTimer(c) ==
  /\ conn[c].closeTimer
  /\ conn' = Collect([conn EXCEPT ![c] = [@ EXCEPT !.closeTimer = FALSE,
                                                  !.ws = IF @ = "open" THEN "closing" ELSE @]],
                     recRef)
  /\ UNCHANGED <<hudVars, backendState, begin, stop, fragSeen>>
  /\ UNCHANGED settingsVars

\* a variant of the Hud's onError: the recording flag is left as it is
HudErrorKeepsRecording ==
  /\ badge' = "Network error. Try again"
  /\ isConnecting' = FALSE
  /\ backendState' = "inactive"
  /\ UNCHANGED <<isRecording, isReadyRef>>

\* the Hud's onError alone
HudError ==
  /\ badge' = "Network error. Try again"
  /\ isConnecting' = FALSE
  /\ isRecording' = FALSE
  /\ backendState' = "inactive"
  /\ UNCHANGED isReadyRef

\* an ElevenLabs message of type error: the adapter reports it to onError, the
\* socket stays as it is
ElError(c) ==
  /\ conn[c].ws = "open"
  /\ conn[c].prov = "el"
  /\ HudError
  /\ conn' = [conn EXCEPT ![c].errored = TRUE]
  /\ UNCHANGED <<show, timerRef, recRef, partialRef, latestTranscriptRef, begin, stop,
                 fragSeen>>
  /\ UNCHANGED settingsVars

\* the Hud's onError followed by its onClose
HudErrorClose ==
  /\ badge' = "Network error. Try again"
  /\ isConnecting' = FALSE
  /\ isRecording' = FALSE
  /\ isReadyRef' = FALSE
  /\ backendState' = "inactive"

\* the Hud's onClose alone
HudClose ==
  /\ isReadyRef' = FALSE
  /\ backendState' = "inactive"
  /\ UNCHANGED <<badge, isConnecting, isRecording>>

\* the close the client asked for completes; a socket closed while CONNECTING
\* fires error before close
WsClosed(c) ==
  /\ conn[c].ws \in {"closing", "aborting"}
  /\ conn' = Collect([conn EXCEPT ![c] = [@ EXCEPT !.ws = "closed", !.keepAlive = FALSE]],
                     recRef)
  /\ IF conn[c].ws = "aborting" THEN HudErrorClose ELSE HudClose
  /\ UNCHANGED <<show, timerRef, recRef, partialRef, latestTranscriptRef, begin, stop,
                 fragSeen>>
  /\ UNCHANGED settingsVars

\* the connection goes down on the server's or the network's side: with an error
\* event (handshake refused, network failure) or by a close frame alone
WsDown(c, withError) ==
  /\ conn[c].ws \in {"connecting", "open"}
  /\ conn[c].ws = "connecting" => withError
  /\ conn' = Collect([conn EXCEPT ![c] = [@ EXCEPT !.ws = "closed", !.keepAlive = FALSE]],
                     recRef)
  /\ IF withError THEN HudErrorClose ELSE HudClose
  /\ UNCHANGED <<show, timerRef, recRef, partialRef, latestTranscriptRef, begin, stop,
                 fragSeen>>
  /\ UNCHANGED settingsVars

\* the keepalive interval of the Deepgram adapter fires: a KeepAlive message is
\* sent when the socket is open
DgKeepAlive(c) ==
  /\ conn[c].keepAlive
  /\ conn' = [conn EXCEPT ![c] = IF conn[c].ws = "open"
                                  THEN [@ EXCEPT !.kaSent = "open",
                                                 !.out = <<DgKeepAliveFrame>>]
                                  ELSE @]
  /\ UNCHANGED <<hudVars, backendState, begin, stop, fragSeen>>
  /\ UNCHANGED settingsVars

\* the audio callback of adapter c fires, for as long as the adapter exists
ElAudio(c) ==
  /\ conn[c].prov = "el"
  /\ conn' = [conn EXCEPT ![c] = ElOnAudio(conn[c])]
  /\ UNCHANGED <<hudVars, backendState, begin, stop, fragSeen>>
  /\ UNCHANGED settingsVars

DgAudio(c) ==
  /\ conn[c].prov = "dg"
  /\ conn' = [conn EXCEPT ![c] = DgOnAudio(conn[c])]
  /\ UNCHANGED <<hudVars, backendState, begin, stop, fragSeen>>
  /\ UNCHANGED settingsVars

\* the codes of a close event: normal closure, protocol error, abnormal
\* closure, policy violation, server error
CloseCodes == {1000, 1002, 1006, 1008, 1011}

\* the close event of a connection that goes down comes with code e.code, and
\* the browser may have fired an error event before it; a normal closure has
\* none, and a server that sends a close frame with any other code causes none
\* either. ws.onclose logs the code and calls onClose
WsCloseEvent(c, code, withError) ==
  /\ code = 1000 => ~withError
  /\ WsDown(c, withError)

\* ------------------------------------------------------------------ stop()

\* a variant of the guard below: stop() looks at the two flags only
StopSeesActiveFlagsOnly(button) == isConnecting \/ isRecording

\* a variant of the guard below: stop() has no guard
StopSeesActiveAlways(button) == TRUE

\* what the guard of stop() sees: the Stop button calls the stop of the latest
\* render (the current isConnecting and isRecording); the dictation-stop listener,
\* registered once on mount, calls the stop of the first render, in which both
\* flags are false for good
StopSeesActive(button) ==
  IF button THEN isConnecting \/ isRecording \/ recRef # NoConn
  ELSE recRef # NoConn

\* another stop() invocation was accepted and has not returned
StopInProgress(p) == \E q \in StopIds \ {p} : stop[q].pc # "idle"

\* history: the sessions that are CONNECTING (begin() under way, or a socket not
\* open yet) are marked as having been asked to stop
MarkBegins == [b \in BeginIds |->
                 IF begin[b].pc \in {"mic", "keys"} THEN [begin[b] EXCEPT !.stopReq = TRUE]
                 ELSE begin[b]]
MarkConns == [c \in ConnIds |->
                IF conn[c].ws = "connecting" THEN [conn[c] EXCEPT !.stopReq = TRUE]
                ELSE conn[c]]

\* stop() is called, by the Stop button (button) or by a dictation-stop event:
\* the guard, the timer, the recorder's stop(); when that stop() resolves within
\* the task (Deepgram; ElevenLabs with no commit to wait for) stop() goes on to
\* the transcript check
StopCall(p, button) ==
  /\ FreeStop # {}
  /\ p = Lowest(FreeStop)
  /\ button => show
  /\ begin' = MarkBegins
  /\ LET rec0 == [stop[p] EXCEPT !.overlap = StopInProgress(p)]
     IN IF ~StopSeesActive(button)
        THEN /\ conn' = MarkConns
             /\ UNCHANGED <<stop, timerRef, recRef, isRecording, isConnecting, isReadyRef,
                            partialRef, latestTranscriptRef, backendState>>
        ELSE /\ timerRef' = FALSE
             /\ recRef' = NoConn
             /\ conn' = Collect(IF recRef # NoConn
                                THEN [MarkConns EXCEPT ![recRef] = RecorderStop(MarkConns[recRef])]
                                ELSE MarkConns, NoConn)
             /\ IF recRef # NoConn /\ RecorderStop(conn[recRef]).commitWait
                THEN /\ stop' = [stop EXCEPT ![p] = [rec0 EXCEPT !.pc = "rec", !.rec = recRef]]
                     /\ UNCHANGED <<isRecording, isConnecting, isReadyRef, partialRef,
                                    latestTranscriptRef, backendState>>
                ELSE PostRecorder(p, rec0, partialRef, latestTranscriptRef)
  /\ UNCHANGED <<show, badge, fragSeen>>
  /\ UNCHANGED settingsVars

\* stop() after set_recording_active 'stopping': the raw transcript is collected
\* and the assembler reset; an empty one ends with 'No speech detected', any
\* other is sent to refine_text
StopAssemble(p) ==
  /\ stop[p].pc = "assemble"
  /\ LET raw == AssembleRaw(partialRef, latestTranscriptRef)
     IN IF raw = ""
        THEN /\ badge' = "No speech detected"
             /\ backendState' = "inactive"
             /\ stop' = [stop EXCEPT ![p] = [@ EXCEPT !.pc = "hide",
                                                     !.outcome = "nospeech"]]
        ELSE /\ stop' = [stop EXCEPT ![p] = [@ EXCEPT !.pc = "refine", !.raw = raw]]
             /\ UNCHANGED <<badge, backendState>>
  /\ partialRef' = <<>>
  /\ latestTranscriptRef' = ""
  /\ UNCHANGED <<show, isRecording, isConnecting, timerRef, recRef, isReadyRef, conn,
                 begin, fragSeen>>
  /\ UNCHANGED settingsVars

\* stop() after set_recording_active 'inactive' on the cancel, no-speech and
\* error paths: the HUD is hidden, stop_dictation invoked, and stop() returns
StopHide(p) ==
  /\ stop[p].pc = "hide"
  /\ show' = FALSE
  /\ stop' = [stop EXCEPT ![p] = NoStop]
  /\ UNCHANGED <<badge, isRecording, isConnecting, timerRef, recRef, partialRef,
                 latestTranscriptRef, isReadyRef, backendState, conn, begin, fragSeen>>
  /\ UNCHANGED settingsVars

\* a variant of the step below: the HUD is not hidden before the paste
StopRefineKeepsHud(p, res, response) ==
  /\ stop[p].pc = "refine"
  /\ show' = show
  /\ stop' = [stop EXCEPT ![p] = [@ EXCEPT
                !.pc = "settle",
                !.refineRes = res,
                !.response = IF res = "ok" THEN response ELSE "",
                !.refined = RefinedText(stop[p].raw, res, response)]]
  /\ UNCHANGED <<badge, isRecording, isConnecting, timerRef, recRef, partialRef,
                 latestTranscriptRef, isReadyRef, backendState, conn, begin, fragSeen>>
  /\ UNCHANGED settingsVars

\* refine_text answers (res = "ok" with a response) or fails or times out
\* (res = "fail"); the HUD is hidden and stop_dictation invoked
StopRefine(p, res, response) ==
  /\ stop[p].pc = "refine"
  /\ show' = FALSE
  /\ stop' = [stop EXCEPT ![p] = [@ EXCEPT
                !.pc = "settle",
                !.refineRes = res,
                !.response = IF res = "ok" THEN response ELSE "",
                !.refined = RefinedText(stop[p].raw, res, response)]]
  /\ UNCHANGED <<badge, isRecording, isConnecting, timerRef, recRef, partialRef,
                 latestTranscriptRef, isReadyRef, backendState, conn, begin, fragSeen>>
  /\ UNCHANGED settingsVars

\* the settle delay after stop_dictation is over: insert_text is invoked with
\* the local `refined`
StopInsert(p) ==
  /\ stop[p].pc = "settle"
  /\ stop' = [stop EXCEPT ![p].pc = "insert"]
  /\ UNCHANGED <<hudVars, backendState, conn, begin, fragSeen>>
  /\ UNCHANGED settingsVars

\* insert_text answers (out = "ok": pasted, or copied to the clipboard) and
\* stop() returns after set_recording_active 'inactive', or it fails
\* (out = "failed") and the catch block does set_recording_active 'inactive'
StopInserted(p, out) ==
  /\ stop[p].pc = "insert"
  /\ backendState' = "inactive"
  /\ stop' = [stop EXCEPT ![p] =
                IF out = "ok" THEN NoStop
                ELSE [stop[p] EXCEPT !.pc = "hide", !.outcome = "failed"]]
  /\ UNCHANGED <<hudVars, conn, begin, fragSeen>>
  /\ UNCHANGED settingsVars

\* ----------------------------------------------------------- global hotkey

dictationVars == <<show, badge, isRecording, isConnecting, timerRef, recRef, partialRef,
                   latestTranscriptRef, isReadyRef, backendState, conn, begin, stop, fragSeen>>

Min(a, b) == IF a < b THEN a ELSE b
Max(a, b) == IF a > b THEN a ELSE b

\* a variant of the debounce below: the cooldown is not looked at
HotkeyAcceptsNoCooldown(processing, since) == ~processing

\* a variant of the debounce below: the lock is not looked at
HotkeyAcceptsNoLock(processing, since) == since >= HOTKEY_COOLDOWN_MS

\* the debounce of the handler: a press goes on when no press is being processed
\* and the cooldown has passed since the last accepted one
HotkeyAccepts(processing, since) == ~processing /\ since >= HOTKEY_COOLDOWN_MS

\* a variant of the finally block below: the lock is released after a success only
HotkeyFinallyOnSuccess(out) == IF out = "failed" THEN NoTimer ELSE LockReleaseDelayMs

\* the finally block of the handler: whatever the outcome out of the try block,
\* the timer that releases the lock is set
HotkeyFinally(out) == LockReleaseDelayMs

\* the hotkey is pressed: the handler runs up to its first await; an ignored
\* press returns with nothing changed
HotkeyPress ==
  /\ IF HotkeyAccepts(isProcessingHotkey, timeSinceLastPress)
     THEN /\ isProcessingHotkey' = TRUE
          /\ timeSinceLastPress' = 0
          /\ hotkeyPc' = "is_dictation_active"
          /\ invoked' = <<"is_dictation_active">>
          /\ UNCHANGED releaseTimer
     ELSE UNCHANGED hotkeyVars
  /\ UNCHANGED <<dictationVars, updateVars>>

\* is_dictation_active answers res in {"active", "inactive", "failed"}: the
\* handler invokes trigger_stop_dictation or start_dictation, or, when the
\* command failed, goes through catch and finally
HotkeyIsActive(res) ==
  /\ hotkeyPc = "is_dictation_active"
  /\ IF res = "failed"
     THEN /\ hotkeyPc' = "idle"
          /\ releaseTimer' = HotkeyFinally(res)
          /\ UNCHANGED invoked
     ELSE /\ hotkeyPc' = IF res = "active" THEN "trigger_stop_dictation" ELSE "start_dictation"
          /\ invoked' = Append(invoked, IF res = "active" THEN "trigger_stop_dictation"
                                        ELSE "start_dictation")
          /\ UNCHANGED releaseTimer
  /\ UNCHANGED <<isProcessingHotkey, timeSinceLastPress>>
  /\ UNCHANGED <<dictationVars, updateVars>>

\* trigger_stop_dictation or start_dictation answers out in {"ok", "failed"}:
\* the handler ends through finally
HotkeyCommand(out) ==
  /\ hotkeyPc \in {"trigger_stop_dictation", "start_dictation"}
  /\ hotkeyPc' = "idle"
  /\ releaseTimer' = HotkeyFinally(out)
  /\ UNCHANGED <<isProcessingHotkey, timeSinceLastPress, invoked>>
  /\ UNCHANGED <<dictationVars, updateVars>>

\* the 300 ms timer fires: the lock is released
HotkeyRelease ==
  /\ releaseTimer = 0
  /\ isProcessingHotkey' = FALSE
  /\ releaseTimer' = NoTimer
  /\ UNCHANGED <<timeSinceLastPress, hotkeyPc, invoked>>
  /\ UNCHANGED <<dictationVars, updateVars>>

\* TickMs of time pass
HotkeyTick ==
  /\ timeSinceLastPress' = Min(timeSinceLastPress + TickMs, HOTKEY_COOLDOWN_MS)
  /\ releaseTimer' = IF releaseTimer = NoTimer THEN NoTimer ELSE Max(releaseTimer - TickMs, 0)
  /\ UNCHANGED <<isProcessingHotkey, hotkeyPc, invoked>>
  /\ UNCHANGED <<dictationVars, updateVars>>

\* ----------------------------------------------------------------- updater

\* the callback of the 3 s timer set after an 'uptodate' result
UpToDateExpired(st) == [st EXCEPT !.status = "idle"]

\* the windows offer 'Check for Updates' (settings: unless an update is
\* available, disabled while checking or downloading; title bar: Retry on error)
CheckOffered == globalUpdateState.status \notin {"available", "checking", "downloading"}

\* the windows offer the download when the status is 'available'
DownloadOffered == globalUpdateState.status = "available"

\* checkForUpdatesGlobal up to `await check()`, called by the title bar's timer
\* on mount or by a click
CheckStart(byMount) ==
  /\ updater.started < MaxChecks
  /\ IF byMount THEN updater.mount ELSE CheckOffered
  /\ globalUpdateState' = [globalUpdateState EXCEPT !.status = "checking", !.error = "none"]
  /\ updater' = [updater EXCEPT !.checks = @ + 1, !.started = @ + 1,
                                !.mount = IF byMount THEN FALSE ELSE @]
  /\ UNCHANGED <<dictationVars, hotkeyVars>>

\* check() answers res in {"update", "none", "failed"}
CheckDone(res) ==
  /\ updater.checks > 0
  /\ globalUpdateState' =
       IF res = "update"
       THEN [globalUpdateState EXCEPT !.pendingUpdate = "v2", !.status = "available"]
       ELSE IF res = "none" THEN [globalUpdateState EXCEPT !.status = "uptodate"]
       ELSE [globalUpdateState EXCEPT !.error = "failed", !.status = "error"]
  /\ updater' = [updater EXCEPT !.checks = @ - 1,
                                !.resets = IF res = "none" THEN @ + 1 ELSE @]
  /\ UNCHANGED <<dictationVars, hotkeyVars>>

\* a 3 s timer set after an 'uptodate' result fires
ResetTimer ==
  /\ updater.resets > 0
  /\ globalUpdateState' = UpToDateExpired(globalUpdateState)
  /\ updater' = [updater EXCEPT !.resets = @ - 1]
  /\ UNCHANGED <<dictationVars, hotkeyVars>>

\* downloadAndInstallGlobal up to its await, called by a click; one download
\* at a time is followed
DownloadStart ==
  /\ DownloadOffered
  /\ ~updater.download
  /\ IF globalUpdateState.pendingUpdate = "none"
     THEN UNCHANGED updateVars
     ELSE /\ globalUpdateState' = [globalUpdateState EXCEPT !.status = "downloading",
                                                            !.progress = 0]
          /\ updater' = [updater EXCEPT !.download = TRUE]
  /\ UNCHANGED <<dictationVars, hotkeyVars>>

\* a Progress event of the download: pct percent are there
DownloadProgress(pct) ==
  /\ updater.download
  /\ globalUpdateState' = [globalUpdateState EXCEPT !.progress = pct]
  /\ UNCHANGED <<updater, dictationVars, hotkeyVars>>

\* downloadAndInstall answers res in {"ok", "failed"}
DownloadDone(res) ==
  /\ updater.download
  /\ globalUpdateState' =
       IF res = "ok" THEN [globalUpdateState EXCEPT !.status = "ready"]
       ELSE [globalUpdateState EXCEPT !.error = "failed", !.status = "error"]
  /\ updater' = [updater EXCEPT !.download = FALSE, !.relaunch = (res = "ok")]
  /\ UNCHANGED <<dictationVars, hotkeyVars>>

\* the 1 s timer fires and relaunch() restarts the application with the
\* update installed: the window is loaded anew
Relaunch ==
  /\ updater.relaunch
  /\ globalUpdateState' = NoUpdateState
  /\ updater' = [NoUpdater EXCEPT !.started = updater.started]
  /\ UNCHANGED <<dictationVars, hotkeyVars>>

\* ------------------------------------------------------------ specification

Next ==
  \/ \E b \in BeginIds, prov \in Providers : BeginStart(b, prov)
  \/ \E b \in BeginIds, out \in {"ok", "denied", "failed"} : BeginMic(b, out)
  \/ \E b \in BeginIds, out \in {"ok", "nokey", "failed"} : BeginKeys(b, out)
  \/ \E c \in ConnIds : WsOpen(c)
  \/ \E c \in ConnIds, t \in SessionTexts, msg \in SessionMessages :
       DgResults(c, t, msg, MaxFinals)
  \/ \E c \in ConnIds, t \in SessionTexts : ElPartial(c, t, MaxFinals)
  \/ \E c \in ConnIds, t \in SessionTexts \cup {""} : ElCommitted(c, t, MaxFinals)
  \/ \E c \in ConnIds : ElCommitTimeout(c)
  \/ \E c \in ConnIds : DgCloseTimer(c)
  \/ \E c \in ConnIds : WsClosed(c)
  \/ \E c \in ConnIds, code \in CloseCodes, withError \in BOOLEAN :
       WsCloseEvent(c, code, withError)
  \/ \E p \in StopIds, button \in BOOLEAN : StopCall(p, button)
  \/ \E p \in StopIds : StopAssemble(p)
  \/ \E p \in StopIds : StopHide(p)
  \/ \E p \in StopIds, res \in {"ok", "fail"}, response \in Responses :
       StopRefine(p, res, response)
  \/ \E p \in StopIds : StopInsert(p)
  \/ \E p \in StopIds, out \in {"ok", "failed"} : StopInserted(p, out)

Spec == Init /\ [][Next]_vars

\* The assembler specification: one session that starts without a failure,
\* fragments drawn from AsmTexts, one stop() at a time.
NextAsm ==
  \/ \E prov \in {"dg", "el"} : BeginStart(1, prov)
  \/ BeginMic(1, "ok")
  \/ BeginKeys(1, "ok")
  \/ WsOpen(1)
  \/ \E t \in AsmTexts, msg \in DgMessages : DgResults(1, t, msg, AsmMaxFinals)
  \/ \E t \in AsmTexts : ElPartial(1, t, AsmMaxFinals)
  \/ \E t \in AsmTexts : ElCommitted(1, t, AsmMaxFinals)
  \/ ElCommitTimeout(1)
  \/ DgCloseTimer(1)
  \/ WsClosed(1)
  \/ \E button \in BOOLEAN : StopCall(1, button)
  \/ StopAssemble(1)
  \/ StopHide(1)
  \/ \E res \in {"ok", "fail"} : StopRefine(1, res, "R")
  \/ StopInsert(1)
  \/ \E out \in {"ok", "failed"} : StopInserted(1, out)

SpecAsm == Init /\ [][NextAsm]_vars

\* The single-session specification: one start request, every outcome of its
\* steps, and the stop requests that arrive during it and after it.
NextOne ==
  \/ \E prov \in Providers : BeginStart(1, prov)
  \/ \E out \in {"ok", "denied", "failed"} : BeginMic(1, out)
  \/ \E out \in {"ok", "nokey", "failed"} : BeginKeys(1, out)
  \/ WsOpen(1)
  \/ \E t \in SessionTexts, msg \in DgMessages : DgResults(1, t, msg, MaxFinals)
  \/ \E t \in SessionTexts : ElPartial(1, t, MaxFinals)
  \/ \E t \in SessionTexts \cup {""} : ElCommitted(1, t, MaxFinals)
  \/ ElCommitTimeout(1)
  \/ DgCloseTimer(1)
  \/ WsClosed(1)
  \/ \E code \in CloseCodes, withError \in BOOLEAN : WsCloseEvent(1, code, withError)
  \/ ElError(1)
  \/ DgKeepAlive(1)
  \/ ElAudio(1)
  \/ DgAudio(1)
  \/ \E p \in StopIds, button \in BOOLEAN : StopCall(p, button)
  \/ \E p \in StopIds : StopAssemble(p)
  \/ \E p \in StopIds : StopHide(p)
  \/ \E p \in StopIds, res \in {"ok", "fail"}, response \in Responses :
       StopRefine(p, res, response)
  \/ \E p \in StopIds : StopInsert(p)
  \/ \E p \in StopIds, out \in {"ok", "failed"} : StopInserted(p, out)

SpecOne == Init /\ [][NextOne]_vars

\* the badges of the ERROR exit of begin() and of the provider handlers
ErrorBadges ==
  {"Microphone permission required", "Failed to start dictation",
   "ElevenLabs key not configured", "Deepgram key not configured",
   "Selected STT provider not supported yet", "Network error. Try again"}

\* the session has left CONNECTING or RECORDING through the ERROR exit
Aborted ==
  /\ badge \in ErrorBadges /\ ~isRecording /\ ~isConnecting
  /\ \A b \in BeginIds : begin[b].pc \notin {"mic", "keys"}

\* a dictation-start event, the second one after the first session was aborted
Restart(b, prov) ==
  /\ b # 1 => Aborted
  /\ BeginStart(b, prov)

\* The restart specification: a start request, every outcome of its steps and
\* every event of its socket, no stop request, and a second start request once
\* the first session was aborted by a failure.
NextRetry ==
  \/ \E b \in BeginIds, prov \in Providers : Restart(b, prov)
  \/ \E b \in BeginIds, out \in {"ok", "denied", "failed"} : BeginMic(b, out)
  \/ \E b \in BeginIds, out \in {"ok", "nokey", "failed"} : BeginKeys(b, out)
  \/ \E c \in ConnIds : WsOpen(c)
  \/ \E c \in ConnIds, t \in SessionTexts, msg \in DgMessages :
       DgResults(c, t, msg, MaxFinals)
  \/ \E c \in ConnIds, t \in SessionTexts : ElPartial(c, t, MaxFinals)
  \/ \E c \in ConnIds, t \in SessionTexts \cup {""} : ElCommitted(c, t, MaxFinals)
  \/ \E c \in ConnIds : ElCommitTimeout(c)
  \/ \E c \in ConnIds : WsClosed(c)
  \/ \E c \in ConnIds, code \in CloseCodes, withError \in BOOLEAN :
       WsCloseEvent(c, code, withError)
  \/ \E c \in ConnIds : ElError(c)

SpecRetry == Init /\ [][NextRetry]_vars

\* The adapter specification: one adapter is started, its socket opens, delivers
\* fragments, fails or closes, and its stop() is called any number of times, at
\* any moment.
NextAdapter ==
  \/ \E prov \in {"dg", "el"} : BeginStart(1, prov)
  \/ BeginMic(1, "ok")
  \/ BeginKeys(1, "ok")
  \/ WsOpen(1)
  \/ \E t \in SessionTexts, msg \in DgMessages : DgResults(1, t, msg, MaxFinals)
  \/ \E t \in SessionTexts : ElPartial(1, t, MaxFinals)
  \/ \E t \in SessionTexts \cup {""} : ElCommitted(1, t, MaxFinals)
  \/ ElCommitTimeout(1)
  \/ DgCloseTimer(1)
  \/ WsClosed(1)
  \/ \E code \in CloseCodes, withError \in BOOLEAN : WsCloseEvent(1, code, withError)
  \/ AdapterStop(1)

SpecAdapter == Init /\ [][NextAdapter]_vars

\* what stop() invocation p does once the promise it awaits settles or its
\* timer fires
StopProgress(p) ==
  \/ StopAssemble(p)
  \/ StopHide(p)
  \/ \E res \in {"ok", "fail"}, response \in Responses : StopRefine(p, res, response)
  \/ StopInsert(p)
  \/ \E out \in {"ok", "failed"} : StopInserted(p, out)

\* The single-session specification with the scheduling the event loop gives:
\* every backend command a stop() awaits answers or fails (refine_text within
\* its timeout), the settle timer fires, and so do the 5 s timer of the
\* ElevenLabs commit race and the 50 ms close timer of the Deepgram stop().
FairOne ==
  /\ SpecOne
  /\ \A p \in StopIds : WF_vars(StopProgress(p))
  /\ WF_vars(ElCommitTimeout(1))
  /\ WF_vars(DgCloseTimer(1))

\* The hotkey specification: presses at any time, every answer of the three
\* backend commands, and the passing of time.
NextHotkey ==
  \/ HotkeyPress
  \/ \E res \in {"active", "inactive", "failed"} : HotkeyIsActive(res)
  \/ \E out \in {"ok", "failed"} : HotkeyCommand(out)
  \/ HotkeyRelease
  \/ HotkeyTick

SpecHotkey == Init /\ [][NextHotkey]_vars

\* The hotkey specification with the scheduling the event loop gives: time
\* passes, a due timer fires, and every backend command answers or fails.
FairHotkey ==
  /\ SpecHotkey
  /\ WF_vars(HotkeyTick)
  /\ WF_vars(HotkeyRelease)
  /\ WF_vars(\E res \in {"active", "inactive", "failed"} : HotkeyIsActive(res))
  /\ WF_vars(\E out \in {"ok", "failed"} : HotkeyCommand(out))

\* The updater specification: the check on mount, clicks on the buttons the
\* windows offer, every answer of check() and of downloadAndInstall, the timers.
NextUpdate ==
  \/ \E byMount \in BOOLEAN : CheckStart(byMount)
  \/ \E res \in {"update", "none", "failed"} : CheckDone(res)
  \/ ResetTimer
  \/ DownloadStart
  \/ \E pct \in {50, 100} : DownloadProgress(pct)
  \/ \E res \in {"ok", "failed"} : DownloadDone(res)
  \/ Relaunch

SpecUpdate == Init /\ [][NextUpdate]_vars

\* ------------------------------------------------------------------ claims

\* the step in which stop() invocation p collects the raw transcript
AssembleStep(p) == stop[p].pc = "assemble" /\ stop'[p].pc # "assemble"

\* the raw transcript stop() invocation p has collected ("" when it ended with
\* 'No speech detected')
RawOf(sr) == IF sr.pc = "refine" THEN sr.raw ELSE ""

StartsWith(s, pre) == Len(pre) <= Len(s) /\ SubSeq(s, 1, Len(pre)) = pre
EndsWith(s, suf) == Len(suf) <= Len(s) /\ SubSeq(s, Len(s) - Len(suf) + 1, Len(s)) = suf

\* C1: the raw transcript stop() collects is the finalized segments joined with
\* single spaces and trimmed, followed by a space and the trimmed latest fragment
\* exactly when the trimmed latest fragment is non-empty and not a substring of
\* that join (with no finalized text, the trimmed latest fragment alone).
C1_RawIsJoinPlusTrimmedLatest ==
  [][\A p \in StopIds : AssembleStep(p) =>
       LET join == Trim(JoinSpace(partialRef))
           lt == Trim(latestTranscriptRef)
       IN RawOf(stop'[p]) =
            IF lt # "" /\ ~Includes(join, lt)
            THEN (IF join = "" THEN lt ELSE join \o " " \o lt)
            ELSE join]_vars

\* C1 as stated: the latest fragment as received is what is tested for being
\* non-empty and a substring of the join; the raw transcript is the join when
\* the test fails, and otherwise the join followed by the fragment (read up to
\* surrounding whitespace)
C1_AsStated ==
  [][\A p \in StopIds : AssembleStep(p) =>
       LET join == Trim(JoinSpace(partialRef))
           latest == latestTranscriptRef
           raw == RawOf(stop'[p])
       IN IF latest # "" /\ ~Includes(join, latest)
          THEN raw # join /\ StartsWith(raw, join) /\ EndsWith(raw, Trim(latest))
          ELSE raw = join]_vars

\* C1 witness: a stop() that holds a raw transcript made of a finalized segment
\* followed by the latest fragment
C1_Witness == \E p \in StopIds : stop[p].pc = "refine" /\ stop[p].raw = "hello or"

\* C2: with the finalized segments "hello", "world" and the latest fragment
\* "world there", the raw transcript is "hello world world there": the fragment
\* is not a substring of "hello world", so all of it is appended.
C2_OverlapIsAppendedWhole ==
  [][\A p \in StopIds :
       (AssembleStep(p) /\ partialRef = <<"hello", "world">>
                        /\ latestTranscriptRef = "world there")
       => RawOf(stop'[p]) = "hello world world there"]_vars

\* C2 as stated: that raw transcript is "hello world there"
C2_AsStated ==
  [][\A p \in StopIds :
       (AssembleStep(p) /\ partialRef = <<"hello", "world">>
                        /\ latestTranscriptRef = "world there")
       => RawOf(stop'[p]) = "hello world there"]_vars

\* C2 witness: stop() is about to collect the transcript of that scenario
C2_Witness ==
  \E p \in StopIds : /\ stop[p].pc = "assemble"
                     /\ partialRef = <<"hello", "world">>
                     /\ latestTranscriptRef = "world there"

\* the step in which stop() invocation p, just called or resumed after the
\* recorder's stop(), makes its transcript check
CheckStep(p) == stop[p].pc \in {"idle", "rec"} /\ stop'[p].pc \notin {"idle", "rec"}

C4_NoFragmentNoDelivery ==
  [][\A p \in StopIds : (CheckStep(p) /\ ~fragSeen') =>
       /\ stop'[p].pc = "hide"
       /\ stop'[p].outcome = "cancelled"
       /\ backendState' = "inactive"]_vars

\* C4 witness: a session whose recorder was stopped with no fragment received,
\* its stop() on the cancel path
C4_Witness ==
  \E p \in StopIds, c \in ConnIds :
    /\ stop[p].pc = "hide" /\ stop[p].outcome = "cancelled"
    /\ ~fragSeen
    /\ conn[c].stopped

\* stop() invocation p has the text it hands to insert_text
HasRefined(p) == stop[p].pc \in {"settle", "insert"}

C6_RefinedNeverEmpty ==
  \A p \in StopIds : (HasRefined(p) /\ stop[p].raw # "") => stop[p].refined # ""

\* some stop() invocation was accepted and has not returned
StopUnderWay == \E p \in StopIds : stop[p].pc # "idle"

\* C7: once a stop is accepted the session eventually is IDLE again: no stop()
\* under way, the backend state 'inactive', the HUD hidden.
C7_StopReturnsToIdle ==
  StopUnderWay ~> (~StopUnderWay /\ backendState = "inactive" /\ ~show)

\* C8: a session asked to stop while CONNECTING (begin() awaiting the microphone
\* or the credentials, or its socket not open yet) does not afterwards proceed
\* to RECORDING: its socket never opens.
C8_StoppedWhileConnectingNeverRecords ==
  \A c \in ConnIds : conn[c].stopReq => conn[c].ws # "open"

\* C9: a stop() accepted while another stop() is under way has no effect; in
\* particular, while the first stop() awaits the recorder's stop(), the second
\* invokes neither refine_text nor insert_text.
C9_SecondStopHasNoEffect ==
  \A p, q \in StopIds :
    (stop[p].pc = "rec" /\ stop[q].overlap) => stop[q].pc \notin {"refine", "settle", "insert"}

\* the provider sockets that are connecting or open
LiveSockets == {c \in ConnIds : conn[c].ws \in {"connecting", "open"}}

\* C10: a connection that was stopped, by stop() or by the stale-handle teardown
\* of a new begin(), is torn down before the next one is opened: its socket is
\* not live together with another one.
C10_OneLiveSocket ==
  \A c \in ConnIds : (conn[c].stopped /\ c \in LiveSockets) => LiveSockets = {c}

\* the adapters that are at work: started, not stopped, the socket connecting
\* or open
WorkingAdapters == {c \in LiveSockets : ~conn[c].stopped}

\* C11: at most one recorder is alive, and the controller can stop it: every
\* adapter at work is the one whose handle recRef holds.
C11_NoOrphanRecorder ==
  /\ Cardinality(WorkingAdapters) <= 1
  /\ \A c \in WorkingAdapters : recRef = c

\* no session is under way: no begin() in flight, no stop() under way, the
\* flags down and the backend state 'inactive'
SessionIdle ==
  /\ \A b \in BeginIds : begin[b].pc \notin {"mic", "keys"}
  /\ ~StopUnderWay
  /\ ~isRecording /\ ~isConnecting
  /\ backendState = "inactive"

\* C12: no IDLE state has the microphone open (a MediaStream whose tracks were
\* not stopped) or a provider socket unclosed.
C12_IdleReleasesMicAndSocket ==
  SessionIdle => /\ \A b \in BeginIds : begin[b].mic # "live"
                 /\ LiveSockets = {}

\* the provider reports a transport error on the open socket of connection c:
\* the socket fails (error, then close), or ElevenLabs sends an error message
ErrorWhileOpen(c) == conn[c].ws = "open" /\ (WsDown(c, TRUE) \/ ElError(c))

\* C13: a transport error reported while the socket is open takes the session
\* out of RECORDING in that very step (recording flag false, backend state
\* 'inactive') and sets the badge 'Network error. Try again'.
C13_ErrorLeavesRecording ==
  [][\A c \in ConnIds : ErrorWhileOpen(c) =>
       /\ ~isRecording'
       /\ backendState' = "inactive"
       /\ badge' = "Network error. Try again"]_vars

\* C13 witness: the badge of a transport error on a session that had entered
\* RECORDING (its elapsed timer was started)
C13_Witness ==
  /\ badge = "Network error. Try again" /\ timerRef
  /\ ~isRecording /\ backendState = "inactive"

\* the recording state as the flags, the backend and the elapsed timer show it
NotRecording == ~isRecording /\ backendState # "recording" /\ ~timerRef

\* a step in which the start request of begin() b fails before its socket
\* opens: begin() returns without an adapter, or the connecting socket fails
StartFails(b) ==
  \/ begin[b].pc \in {"mic", "keys"} /\ begin'[b].pc = "done" /\ conn'[b] = NoConnection
  \/ conn[b].ws = "connecting" /\ conn'[b].ws \in {"closed", "none"}

\* begin() has returned and no socket of the session can still open
CannotOpen == begin[1].pc = "done" /\ conn[1].ws # "connecting"

\* C14: a start that fails before its socket opens (microphone denied, capture
\* failure, unsupported provider, missing credential, credential fetch failure,
\* socket refused by the provider) leaves the session not recording: the
\* recording flag is false, the backend state is not 'recording' and no elapsed
\* timer runs; and from then on the session never enters RECORDING.
C14_FailedStartNeverRecords ==
  /\ [][StartFails(1) => NotRecording']_vars
  /\ []((CannotOpen /\ NotRecording) => []NotRecording)

\* C14 witness: begin() has caught a failure after the microphone was opened,
\* no adapter exists
C14_Witness ==
  /\ begin[1].pc = "done" /\ begin[1].mic = "live"
  /\ conn[1] = NoConnection /\ recRef = NoConn
  /\ badge = "Failed to start dictation"
  /\ NotRecording

\* the adapter of ElevenLabs connection c calls ws.close() on its open socket
ElClosesOpenSocket(c) ==
  conn[c].prov = "el" /\ conn[c].ws = "open" /\ conn'[c].ws = "closing"

\* C15: the ElevenLabs adapter closes its open socket only at the end of a
\* commit wait, that is in the step of a committed_transcript received after
\* the commit was sent or of the 5 s timer, also when committed transcripts
\* were received before the stop.
C15_CloseWaitsForCommit ==
  [][\A c \in ConnIds : ElClosesOpenSocket(c) => conn[c].commitWait]_vars

\* the adapter's stop() of connection c has completed: the race is over, the
\* socket is no longer open and no stop() of the Hud awaits it
ElStopOver(c) ==
  /\ ~conn[c].commitWait
  /\ conn[c].ws \notin {"connecting", "open"}
  /\ WaiterOf(c) = {}

\* C16: the ElevenLabs adapter's stop() always completes and closes the socket,
\* whether or not a committed_transcript arrives: every commit wait ends, and
\* when the 5 s timer ends it the socket is closed and the stop() awaiting it
\* goes on with the assembler as it is, to assemble what was captured.
C16_ElStopAlwaysCompletes ==
  /\ (conn[1].commitWait ~> ElStopOver(1))
  /\ [][ElCommitTimeout(1) =>
          /\ ElStopOver(1)'
          /\ \A p \in WaiterOf(1) :
               HasAnyTranscript(partialRef, latestTranscriptRef) =>
                 /\ stop'[p].pc = "assemble"
                 /\ partialRef' = partialRef
                 /\ latestTranscriptRef' = latestTranscriptRef]_vars

\* C16 witness: the 5 s timer has ended a commit wait with no committed fragment
\* captured; the socket is being closed and stop() is about to assemble the
\* interim text
C16_Witness ==
  /\ conn[1].prov = "el" /\ conn[1].stopped /\ ~conn[1].commitWait
  /\ conn[1].timedOut /\ conn[1].ws = "closing"
  /\ partialRef = <<>> /\ latestTranscriptRef = "a"
  /\ \E p \in StopIds : stop[p].pc = "assemble"

\* C17: a Deepgram Results fragment is reported as final, and so appended to
\* the finalized segments, exactly when its speech_final flag is set; a fragment
\* with is_final alone only replaces the latest interim fragment.
C17_FinalIffSpeechFinal ==
  [][\A t \in SessionTexts, msg \in DgMessages :
       DgResults(1, t, msg, MaxFinals) =>
         /\ partialRef' = IF msg.speech_final THEN Append(partialRef, t) ELSE partialRef
         /\ latestTranscriptRef' = t]_vars

\* C17 witness: a fragment with is_final and without speech_final was received
\* and is the latest interim fragment; no segment was finalized
C17_Witness ==
  /\ conn[1].prov = "dg" /\ conn[1].finalOnly
  /\ partialRef = <<>> /\ latestTranscriptRef = "a"

\* C18: when the open Deepgram socket closes with a code other than 1000, the
\* adapter invokes onError (the badge 'Network error. Try again' is set, the
\* flags cleared) before onClose.
C18_AbnormalCloseReportsError ==
  [][\A code \in CloseCodes \ {1000}, withError \in BOOLEAN :
       (conn[1].prov = "dg" /\ conn[1].ws = "open" /\ WsCloseEvent(1, code, withError))
         => /\ badge' = "Network error. Try again"
            /\ ~isRecording']_vars

\* C19: the keepalive timer of a Deepgram adapter exists only while its socket
\* is open and the adapter not stopped (it is created on open, removed by stop()
\* and on close), no other adapter has one, and no KeepAlive message is sent on
\* a socket that is not open.
C19_KeepAliveOnlyWhileOpen ==
  \A c \in ConnIds :
    /\ conn[c].keepAlive =>
         conn[c].prov = "dg" /\ conn[c].ws = "open" /\ ~conn[c].stopped
    /\ conn[c].kaSent \in {"none", "open"}

\* C19 witness: a Deepgram adapter that sent a KeepAlive while open was stopped:
\* the timer is removed while the socket is still open for the CloseStream
C19_Witness ==
  /\ conn[1].prov = "dg" /\ conn[1].kaSent = "open"
  /\ conn[1].stopped /\ conn[1].ws = "open" /\ ~conn[1].keepAlive

\* C20: isReadyRef is true only after the adapter of the session signalled open,
\* and it is false from the moment a stop is requested or a provider error
\* occurs: while it is true a socket is open, no stop() is under way (the wait
\* for the provider's commit included) and no provider error is displayed.
C20_ReadyOnlyWhileStreaming ==
  isReadyRef =>
    /\ \E c \in ConnIds : conn[c].ws = "open"
    /\ ~StopUnderWay
    /\ badge # "Network error. Try again"

\* s is a prefix of t
IsPrefix(s, t) == Len(s) <= Len(t) /\ SubSeq(t, 1, Len(s)) = s

\* the session is RECORDING or STOPPING: the provider confirmed the open and the
\* session has not returned to IDLE
InSession == isRecording \/ backendState \in {"recording", "stopping"} \/ StopUnderWay

Processed(t, final) ==
  /\ partialRef' = IF final THEN Append(partialRef, t) ELSE partialRef
  /\ latestTranscriptRef' = t

\* C22: transcript events are processed one by one in the order the provider
\* emits them: a final event appends its text behind the finalized segments, a
\* non-final one leaves them alone, and every event overwrites the latest
\* fragment; so the finalized segments are the final fragments in emission order.
C22_FragmentsInArrivalOrder ==
  [][\A t \in AsmTexts :
       /\ ElPartial(1, t, AsmMaxFinals) => Processed(t, FALSE)
       /\ ElCommitted(1, t, AsmMaxFinals) => Processed(t, TRUE)
       /\ \A msg \in DgMessages :
            DgResults(1, t, msg, AsmMaxFinals) => Processed(t, msg.speech_final)]_vars

\* C22 witness: ElevenLabs committed two different fragments, kept in that
\* order, and a later partial one is the latest fragment
C22_Witness ==
  /\ conn[1].prov = "el"
  /\ partialRef = <<"hello", "world">>
  /\ latestTranscriptRef = "or"

\* C23: whenever the session is IDLE again, through success, cancellation or
\* error, its fields are reset: no finalized segment, no latest fragment,
\* isReadyRef false.
C23_IdleFieldsReset ==
  SessionIdle => /\ partialRef = <<>>
                 /\ latestTranscriptRef = ""
                 /\ ~isReadyRef

\* a step that puts the session in RECORDING
EntersRecording ==
  \/ ~isRecording /\ isRecording'
  \/ backendState # "recording" /\ backendState' = "recording"
  \/ ~timerRef /\ timerRef'

\* the adapter held in recRef confirms the open in this step
OpenConfirmed == recRef # NoConn /\ conn[recRef].ws = "connecting" /\ conn'[recRef].ws = "open"

\* C24: the session enters RECORDING (recording flag, backend state
\* 'recording', elapsed timer, connecting indicator cleared) only in the step in
\* which the adapter of the current session confirms the open, and not once a
\* stop request was accepted: not while a stop() is under way.
C24_RecordingOnlyOnOpenBeforeStop ==
  [][EntersRecording =>
       /\ OpenConfirmed
       /\ isRecording' /\ backendState' = "recording" /\ timerRef' /\ ~isConnecting'
       /\ ~StopUnderWay]_vars

\* C25: once the session has left CONNECTING or RECORDING through the ERROR
\* exit no timer is left running: the interval that counts the elapsed seconds
\* is cleared, so the counter does not increase until a new session records.
C25_ErrorStopsTimers ==
  (badge \in ErrorBadges /\ ~isRecording /\ ~isConnecting) => ~timerRef

\* nothing of the session is active: not CONNECTING, not RECORDING, no recorder
\* handle
NothingActive == ~isConnecting /\ ~isRecording /\ recRef = NoConn

\* C26: a stop request that arrives when nothing is active (by the Stop button
\* or by a dictation-stop event) is ignored: the step changes nothing, so no
\* adapter is stopped, no stop() is left under way and no backend command,
\* refinement or delivery follows from it.
C26_IdleStopIgnored ==
  [][\A p \in StopIds, button \in BOOLEAN :
       (NothingActive /\ StopCall(p, button)) => UNCHANGED vars]_vars

\* C26 witness: the HUD shows the badge of a failed start with its Stop button,
\* nothing is active and no stop() is under way
C26_Witness ==
  /\ NothingActive /\ show /\ ~StopUnderWay
  /\ begin[1].pc = "done" /\ badge = "Microphone permission required"

\* connection c is a leftover of a session that was aborted by a provider
\* error: a newer adapter is the current one
Leftover(c) == conn[c].errored /\ recRef \notin {c, NoConn}

\* a step of connection c alone: an event of its socket or of its timers, not
\* the begin() that replaces it nor an event of the current adapter
EventOf(c) ==
  /\ conn'[c] # conn[c]
  /\ recRef' = recRef
  /\ conn'[recRef] = conn[recRef]

\* C27: after a session was aborted by a provider error, the next start is
\* accepted and its session is not affected by what the aborted session left
\* behind: no event of the old adapter changes the assembler, isReadyRef, the
\* flags, the badge or the backend state of the new session.
C27_RestartUnaffectedByLeftovers ==
  [][\A c \in ConnIds :
       (Leftover(c) /\ EventOf(c)) =>
         UNCHANGED <<partialRef, latestTranscriptRef, isReadyRef, isRecording,
                     isConnecting, badge, backendState>>]_vars

\* stop() invocation p returns on one of the paths that hide the HUD at once
ReturnsHidden(p) == stop[p].pc = "hide" /\ stop'[p].pc = "idle"

\* the adapter was stopped on an open socket, that is, while the session was
\* RECORDING: the Deepgram adapter has sent CloseStream and its 50 ms timer is
\* pending, the ElevenLabs adapter has waited for the commit
StoppedWhileOpen ==
  \E c \in ConnIds :
    /\ conn[c].stopped
    /\ (conn[c].ws = "open" /\ conn[c].closeTimer) \/ conn[c].timedOut

\* C28: a stop() of a recording session in which no fragment arrived (no
\* finalized segment, no latest fragment) shows the badge 'No speech detected'
\* before it returns.
C28_EmptyStopReportsNoSpeech ==
  [][\A p \in StopIds :
       (ReturnsHidden(p) /\ ~fragSeen /\ StoppedWhileOpen)
         => badge = "No speech detected"]_vars

\* a step of the error and close handling of connection 1
ErrorOrCloseStep ==
  \/ \E code \in CloseCodes, withError \in BOOLEAN : WsCloseEvent(1, code, withError)
  \/ WsClosed(1)
  \/ ElError(1)

\* the connection of the session is closed, its handle still in recRef, and no
\* fragment was finalized
ClosedBeforeFinal ==
  /\ recRef # NoConn /\ conn[recRef].ws = "closed"
  /\ partialRef = <<>>
  /\ ~StopUnderWay

\* stop() invocation p is accepted and goes on to the normal STOPPING path with
\* the assembler as it is
RunsStopping(p) ==
  /\ stop'[p].pc = "assemble"
  /\ backendState' = "stopping"
  /\ partialRef' = partialRef /\ latestTranscriptRef' = latestTranscriptRef

\* C29 as stated: after the close a stop request runs the normal STOPPING path
\* whenever the latest interim fragment is not empty
C29_AsStated ==
  [][\A p \in StopIds, button \in BOOLEAN :
       (ClosedBeforeFinal /\ latestTranscriptRef # "" /\ StopCall(p, button))
         => RunsStopping(p)]_vars

\* what the steps after such an error or close do: the handlers start no
\* stop(); a stop() then called goes on to the STOPPING path; its assembly
\* yields the interim fragment trimmed
StopAfterCloseSteps ==
  /\ (ErrorOrCloseStep /\ partialRef = <<>>) => stop' = stop
  /\ \A p \in StopIds, button \in BOOLEAN :
       (ClosedBeforeFinal /\ Trim(latestTranscriptRef) # "" /\ StopCall(p, button))
         => RunsStopping(p)
  /\ \A p \in StopIds :
       (AssembleStep(p) /\ partialRef = <<>> /\ Trim(latestTranscriptRef) # "")
         => stop'[p].raw = Trim(latestTranscriptRef)

\* C29: when the connection errors or closes before any fragment was finalized,
\* the error and close handling starts no stop(), hence no refinement and no
\* delivery; a stop request after the close passes the guard of stop(), by the
\* button and by the event alike, and when the latest interim fragment is not
\* blank it runs the normal STOPPING path, whose assembly yields that fragment
\* trimmed.
C29_StopAfterCloseDelivers ==
  /\ [](ClosedBeforeFinal => \A button \in BOOLEAN : StopSeesActive(button))
  /\ [][StopAfterCloseSteps]_vars

\* C29 witness: under the badge of a transport error a stop() is on its way to
\* insert_text with the interim fragment, no segment having been finalized
C29_Witness ==
  /\ badge = "Network error. Try again"
  /\ \E p \in StopIds : stop[p].pc = "insert" /\ stop[p].raw = "a"
  /\ ~fragSeen \/ partialRef = <<>>

\* C30: closing is idempotent: a call of the stop() of an adapter that was
\* stopped before changes nothing; in particular it sends no further commit or
\* CloseStream.
C30_StopIdempotent ==
  [][(conn[1].stopped /\ AdapterStop(1)) => conn'[1] = conn[1]]_vars

StopOf(c) == ~conn[c].stopped /\ conn'[c].stopped

\* the steps of the ElevenLabs adapter that send, and what they send
ElOutboundSteps ==
  /\ ElAudio(1) => /\ conn'[1].out = <<ElAudioChunk>>
                   /\ ~conn[1].stopped /\ conn[1].ws = "open"
  /\ (conn[1].prov = "el" /\ StopOf(1)) =>
       conn'[1].out = IF conn[1].ws = "open" THEN ElCommitMessages ELSE conn[1].out
  /\ (conn[1].prov = "el" /\ conn[1].stopped /\ conn'[1].prov = "el") =>
       conn'[1].out = conn[1].out

\* C32: every audio chunk the ElevenLabs adapter sends carries commit false and
\* is sent while the adapter is not stopped and its socket open; stop() on an
\* open socket sends one commit message followed by one empty audio chunk with
\* commit true, and on any other socket sends nothing; a stopped adapter sends
\* nothing more.
C32_ElOutbound ==
  /\ [](conn[1].prov = "el" => conn[1].sent <= 1)
  /\ [][ElOutboundSteps]_vars

\* C32 witness: the adapter was stopped on the open socket of a session that
\* had a partial, and the last it sent is the commit and the commit chunk
C32_Witness ==
  /\ conn[1].prov = "el" /\ conn[1].stopped /\ conn[1].commitWait
  /\ conn[1].out = ElCommitMessages
  /\ latestTranscriptRef = "a"

\* the steps of the Deepgram adapter that send, and what they send
DgOutboundSteps ==
  /\ DgAudio(1) => /\ conn'[1].out = <<DgAudioFrame>>
                   /\ ~conn[1].stopped /\ conn[1].ws = "open"
  /\ DgKeepAlive(1) => /\ conn'[1].out = <<DgKeepAliveFrame>>
                       /\ ~conn[1].stopped /\ conn[1].ws = "open"
  /\ (conn[1].prov = "dg" /\ StopOf(1)) =>
       /\ conn'[1].out = IF conn[1].ws = "open" THEN <<DgCloseStreamFrame>> ELSE conn[1].out
       /\ conn[1].ws = "open" => conn'[1].closeTimer
       /\ conn[1].ws = "connecting" => conn'[1].ws = "aborting"
  /\ (conn[1].prov = "dg" /\ conn[1].stopped /\ conn'[1].prov = "dg") =>
       conn'[1].out = conn[1].out

\* C33: the Deepgram adapter sends audio frames and KeepAlive only while it is
\* not stopped and its socket open, and nothing once stopped; stop() on an open
\* socket sends CloseStream once and the socket is closed afterwards; stop() on
\* a connecting socket closes it and sends nothing.
C33_DgOutbound ==
  /\ [](conn[1].prov = "dg" => conn[1].sent <= 1)
  /\ [][DgOutboundSteps]_vars
  /\ (conn[1].prov = "dg" /\ conn[1].stopped /\ conn[1].ws = "open") ~> (conn[1].ws # "open")

\* C33 witness: a Deepgram adapter that had sent a KeepAlive was stopped on its
\* open socket, sent CloseStream, and its timer has closed the socket
C33_Witness ==
  /\ conn[1].prov = "dg" /\ conn[1].stopped /\ conn[1].kaSent = "open"
  /\ conn[1].out = <<DgCloseStreamFrame>>
  /\ conn[1].ws = "closing" /\ ~conn[1].closeTimer

\* the Hud state that the onOpen and onTranscript callbacks write gets no new
\* value of theirs in this step: no fragment arrives and nothing is switched on
NoOpenNoTranscript ==
  /\ latestTranscriptRef' \in {latestTranscriptRef, ""}
  /\ partialRef' \in {partialRef, <<>>}
  /\ fragSeen' => fragSeen
  /\ isReadyRef' => isReadyRef
  /\ isRecording' => isRecording
  /\ timerRef' => timerRef
  /\ backendState' = "recording" => backendState = "recording"

\* C34: once stop() of the Deepgram adapter was called, no onOpen and no
\* onTranscript callback reaches the Hud: its socket never becomes open
\* afterwards, and Results arriving on the still open socket are dropped.
C34_DgSilentAfterStop ==
  [][(conn[1].prov = "dg" /\ conn[1].stopped) =>
       /\ NoOpenNoTranscript
       /\ conn'[1].ws = "open" => conn[1].ws = "open"]_vars

\* C34 witness: the adapter was stopped on its open socket after an interim
\* result, and the socket is still open for the results CloseStream flushes
C34_Witness ==
  /\ conn[1].prov = "dg" /\ conn[1].stopped /\ conn[1].ws = "open" /\ conn[1].closeTimer
  /\ latestTranscriptRef = "a" /\ partialRef = <<>>

\* connection 1 belongs to a previous session: its adapter was stopped and the
\* begin() of the second start request has reset the assembler
Previous == conn[1].stopped /\ begin[2].pc # "idle"

\* a callback of connection 1 runs: an event of its socket or of its timers in
\* a step that is not one of a begin() or a stop() invocation
CallbackOfPrevious ==
  /\ conn'[1] # conn[1]
  /\ conn'[2] = conn[2]
  /\ begin' = begin /\ stop' = stop /\ recRef' = recRef

\* C35: after begin() has reset the assembler for a new session, no callback
\* of the previous session's connection changes the new session's finalized
\* segments, latest segment, ready flag, timer or backend recording state.
C35_PreviousSessionSilent ==
  [][(Previous /\ CallbackOfPrevious) =>
       UNCHANGED <<partialRef, latestTranscriptRef, isReadyRef, timerRef, backendState>>]_vars

\* C36: once stop() has set the backend state 'stopping', only a step of that
\* stop() invocation takes it away again (after the delivery or on its error
\* path); no provider callback sets 'inactive' or 'recording' in between.
C36_StoppingHeldByStop ==
  [][(backendState = "stopping" /\ backendState' # "stopping") =>
       \E p \in StopIds : stop[p].pc # "idle" /\ stop'[p] # stop[p]]_vars

\* the step in which a press is accepted: its handler goes on to
\* is_dictation_active
PressAccepted == hotkeyPc # "is_dictation_active" /\ hotkeyPc' = "is_dictation_active"

\* the steps of the hotkey handler, by what they need to have happened
DebouncedSteps ==
  /\ PressAccepted => /\ ~isProcessingHotkey
                      /\ timeSinceLastPress >= HOTKEY_COOLDOWN_MS
                      /\ hotkeyPc = "idle" /\ releaseTimer = NoTimer
  /\ timeSinceLastPress' < timeSinceLastPress => PressAccepted
  /\ invoked' # invoked => (PressAccepted \/ hotkeyPc = "is_dictation_active")
  /\ (isProcessingHotkey /\ ~isProcessingHotkey') =>
       hotkeyPc = "idle" /\ releaseTimer = 0

\* C37: a press goes on to is_dictation_active, and from there to
\* start_dictation or trigger_stop_dictation, only when the lock is free and
\* the cooldown has passed since the last accepted press; the lock is held from
\* the accepted press until the timer set when its handler finished has run
\* out; only an accepted press sets the time of the last accepted press.
C37_HotkeyDebounced ==
  /\ [](hotkeyPc # "idle" => isProcessingHotkey)
  /\ [](releaseTimer # NoTimer => isProcessingHotkey)
  /\ [][DebouncedSteps]_vars

\* C37 witness: the lock was released after a start_dictation, and a press now
\* is ignored by the cooldown alone
C37_Witness ==
  /\ ~isProcessingHotkey
  /\ timeSinceLastPress < HOTKEY_COOLDOWN_MS
  /\ invoked = <<"is_dictation_active", "start_dictation">>

\* C38: the processing lock taken by an accepted press is released again,
\* whatever the three backend commands answer.
C38_LockReleased ==
  isProcessingHotkey ~> ~isProcessingHotkey

\* C38 witness: is_dictation_active failed, so that no other command was
\* invoked, and the lock is free again
C38_Witness ==
  /\ ~isProcessingHotkey
  /\ invoked = <<"is_dictation_active">>

\* a check is started, a download is started, a 3 s timer fires in this step
CheckStarts == updater'.started > updater.started
DownloadStarts == ~updater.download /\ updater'.download
ResetFires == updater'.resets < updater.resets

\* C39: once a check has set the status 'available', the status stays
\* 'available' until a download or a new check is started; and the reset to
\* 'idle' that a timer does 3 s after an 'uptodate' result never replaces a
\* newer status 'checking', 'available', 'downloading' or 'error'.
C39_AvailableKept ==
  [][/\ (globalUpdateState.status = "available" /\ globalUpdateState'.status # "available")
          => (CheckStarts \/ DownloadStarts)
     /\ ResetFires =>
          globalUpdateState.status \notin {"checking", "available", "downloading", "error"}]_vars

====
